---------------------------- MODULE Spec2Model ----------------------------
(***************************************************************************)
(* The document processing pipeline of odomos-dsi: upload (single and ZIP  *)
(* batch), parsing, structuring, the asynchronous prediction protocol      *)
(* (pending -> completed | failed) and retry.                              *)
(*                                                                         *)
(* Status names are those of the specification's state graph; the          *)
(* services call them uploaded (= received), parsed (= extracted),         *)
(* structured, and, on the prediction record, pending / completed /        *)
(* failed.                                                                 *)
(***************************************************************************)
EXTENDS Naturals, Sequences, FiniteSets

\* ------------------------------------------------------------- bounds
MaxDocs == 3       \* documents the store can hold in one run
MaxEntries == 3    \* entries of one uploaded ZIP archive
MaxGen == 3        \* prediction generations per document

DocIds == 1..MaxDocs

NoDoc == "none"

InProgressStates == {"extracting", "structuring"}

FailedStates == {"extracting_failed", "structuring_failed", "prediction_failed"}

States ==
  {"received", "extracting", "extracted", "structuring", "structured",
   "prediction_pending", "prediction_completed"} \cup FailedStates

\* Position of a status along the state graph; a stage's _failed state sits
\* at the position of the stage's in-progress state.
Rank(s) ==
  CASE s = "none" -> 0
    [] s = "received" -> 1
    [] s \in {"extracting", "extracting_failed"} -> 2
    [] s = "extracted" -> 3
    [] s \in {"structuring", "structuring_failed"} -> 4
    [] s = "structured" -> 5
    [] s \in {"prediction_pending", "prediction_failed"} -> 6
    [] s = "prediction_completed" -> 7

\* ------------------------------------------------------------- archive
\* A ZIP entry is a PDF, a hidden/system artifact (.DS_Store, __MACOSX) or
\* a file of another type (notes.txt).
EntryKinds == {"pdf", "hidden", "other"}

SeqsUpTo(S, n) == UNION {[1..k -> S] : k \in 0..n}

Archives ==
  {[corrupt |-> TRUE, entries |-> <<>>]}
    \cup {[corrupt |-> FALSE, entries |-> e] : e \in SeqsUpTo(EntryKinds, MaxEntries)}

NoArchive == [corrupt |-> FALSE, entries |-> <<>>]

VARIABLES
  status,      \* status[d]: the Document's status, "none" before it is created
  origin,      \* origin[d]: index of the archive entry d was created from, 0 for a single upload
  triggered,   \* documents whose parsing trigger has been sent
  returned,    \* returned[d]: the status in the upload response for d, "none" until the call returns
  generation,  \* generation[d]: the document's current prediction generation
  prediction,  \* prediction[d]: the document's prediction record
  tasks,       \* background prediction tasks in flight: [doc, gen]
  writeLog,    \* history: every write-back a finished task attempted, per document
  coalesced,   \* history: documents for which a dispatch was coalesced
  batch,       \* the ZIP upload call: pc, archive, created documents, response
  nextId,      \* next free document id
  response,    \* the answer of the call made in the last step, if it was a read or a rejection
  review,      \* review[d]: the reviewer annotation stored with d's prediction
  observed,    \* history: what a polling client last saw of each document
  reportPage,  \* the report detail page of the frontend
  demoPage,    \* the demo pipeline page of the frontend
  call         \* a getRiskPrediction call of the frontend and its requests

vars ==
  <<status, origin, triggered, returned, generation, prediction, tasks,
    writeLog, coalesced, batch, nextId, response,
    review, observed, reportPage, demoPage, call>>

\* The state of the clients: the frontend pages and a polling client.
clientVars == <<observed, reportPage, demoPage, call>>

NoPrediction == [status |-> "none", gen |-> 0]

NoResponse == [op |-> "none", arg |-> <<>>, result |-> <<>>]

IdleBatch ==
  [pc |-> "idle", archive |-> NoArchive, docs |-> <<>>, error |-> "none",
   resp |-> [total_documents |-> 0, documents |-> <<>>]]

\* JavaScript's null, and a JSON field that is absent.
Null == "null"

\* The review statuses of the report detail page.
ReviewStatuses == {"New", "Under Review", "Follow-up Initiated", "Review Complete"}

\* The notes a coordinator types: none, or some text.
Notes == {"", "call back"}

\* The reviewer annotation of a prediction nobody has reviewed.
NoReview == [review_status |-> Null, coordinator_notes |-> Null]

\* No timestamp; a document's creation time is its place in the order of
\* creation, and the clock of a client shows a later time.
NoTime == 0

Times == {MaxDocs + 1, MaxDocs + 2}

NotObserved ==
  [document |-> <<>>, at |-> NoDoc, reviewed |-> FALSE, repeated |-> FALSE,
   prediction |-> "none", gen |-> 0, terminal |-> 0]

\* A document and a prediction the frontend does not have (null).
NoDocument == [upload_id |-> 0, status |-> Null]

NoPredictionResult ==
  [status |-> Null, review_status |-> Null, coordinator_notes |-> Null]

NoReport ==
  [document |-> NoDocument, prediction |-> NoPredictionResult,
   reviewStatus |-> "New", internalNotes |-> ""]

ClosedReportPage ==
  [pc |-> "closed", id |-> 0, report |-> NoReport, isLoading |-> TRUE, error |-> "",
   reviewStatus |-> "New", internalNotes |-> ""]

NoPipelineData ==
  [document |-> NoDocument, parsedText |-> Null, structuredData |-> Null,
   prediction |-> NoPredictionResult]

NewDemoPage ==
  [documents |-> {}, selectedDocId |-> 0, pipelineData |-> NoPipelineData,
   isLoading |-> FALSE, error |-> "", fetches |-> {}]

NoCall == [pc |-> "idle", doc |-> 0, attempts |-> 0, result |-> "none"]

Init ==
  /\ status = [d \in DocIds |-> NoDoc]
  /\ origin = [d \in DocIds |-> 0]
  /\ triggered = {}
  /\ returned = [d \in DocIds |-> NoDoc]
  /\ generation = [d \in DocIds |-> 0]
  /\ prediction = [d \in DocIds |-> NoPrediction]
  /\ tasks = {}
  /\ writeLog = [d \in DocIds |-> <<>>]
  /\ coalesced = {}
  /\ batch = IdleBatch
  /\ nextId = 1
  /\ response = NoResponse
  /\ review = [d \in DocIds |-> NoReview]
  /\ observed = [d \in DocIds |-> NotObserved]
  /\ reportPage = ClosedReportPage
  /\ demoPage = NewDemoPage
  /\ call = NoCall

pipelineVars == <<status, generation, prediction, tasks, writeLog, coalesced>>
intakeVars == <<origin, triggered, returned, batch, nextId>>

\* ------------------------------------------------------ single upload
\* Variant of UploadDocument that holds the call until parsing and
\* structuring are done and answers with the status reached.
UploadDocumentBlocking(d) ==
  /\ d = nextId
  /\ d \in DocIds
  /\ status' = [status EXCEPT ![d] = "structured"]
  /\ triggered' = triggered \cup {d}
  /\ returned' = [returned EXCEPT ![d] = "structured"]
  /\ nextId' = nextId + 1
  /\ UNCHANGED <<origin, generation, prediction, tasks, writeLog, coalesced, batch>>
  /\ response' = NoResponse
  /\ UNCHANGED <<review, clientVars>>

\* POST /documents/upload: the Document is stored at uploaded (received),
\* the parsing trigger is sent and the call returns with status uploaded.
UploadDocument(d) ==
  /\ d = nextId
  /\ d \in DocIds
  /\ status' = [status EXCEPT ![d] = "received"]
  /\ triggered' = triggered \cup {d}
  /\ returned' = [returned EXCEPT ![d] = "received"]
  /\ nextId' = nextId + 1
  /\ UNCHANGED <<origin, generation, prediction, tasks, writeLog, coalesced, batch>>
  /\ response' = NoResponse
  /\ UNCHANGED <<review, clientVars>>

\* --------------------------------------------------------- ZIP upload
\* Variant of IsValidPdf that lets every entry through.
IsValidPdfAny(kind) == TRUE

\* The filter of POST /documents/upload-zip: only PDFs survive; hidden and
\* system files and files of other types are skipped.
IsValidPdf(kind) == kind = "pdf"

\* Indexes of the surviving entries, in archive order.
FilterValidPdfs(entries) ==
  SelectSeq([i \in DOMAIN entries |-> i], LAMBDA i : IsValidPdf(entries[i]))

BatchDocs == {batch.docs[k] : k \in DOMAIN batch.docs}

\* Variant of UploadDocumentsBulk that stores the files last to first.
UploadDocumentsBulkReversed(a, files) ==
  LET n == Len(files)
      ids == [k \in 1..n |-> nextId + k - 1]
      new == {ids[k] : k \in 1..n}
  IN /\ nextId + n - 1 <= MaxDocs
     /\ status' = [d \in DocIds |-> IF d \in new THEN "received" ELSE status[d]]
     /\ origin' = [d \in DocIds |->
          IF d \in new THEN files[n - (d - nextId)] ELSE origin[d]]
     /\ nextId' = nextId + n
     /\ batch' = [IdleBatch EXCEPT !.pc = "triggering", !.archive = a, !.docs = ids]

\* upload_documents_bulk, first half: every surviving file becomes a
\* Document at uploaded (received), all in one database transaction.
UploadDocumentsBulk(a, files) ==
  LET n == Len(files)
      ids == [k \in 1..n |-> nextId + k - 1]
      new == {ids[k] : k \in 1..n}
  IN /\ nextId + n - 1 <= MaxDocs
     /\ status' = [d \in DocIds |-> IF d \in new THEN "received" ELSE status[d]]
     /\ origin' = [d \in DocIds |->
          IF d \in new THEN files[d - nextId + 1] ELSE origin[d]]
     /\ nextId' = nextId + n
     /\ batch' = [IdleBatch EXCEPT !.pc = "triggering", !.archive = a, !.docs = ids]

\* Variant of UploadZip without the validation of the archive.
UploadZipUnvalidated(a, commit) ==
  /\ batch.pc = "idle"
  /\ LET files == FilterValidPdfs(a.entries)
     IN IF ~commit
          THEN /\ batch' = [IdleBatch EXCEPT
                    !.pc = "error", !.archive = a, !.error = "transaction"]
               /\ UNCHANGED <<status, origin, nextId>>
          ELSE UploadDocumentsBulk(a, files)
  /\ UNCHANGED <<triggered, returned>>
  /\ response' = NoResponse
  /\ UNCHANGED <<review, clientVars>>
  /\ UNCHANGED <<generation, prediction, tasks, writeLog, coalesced>>

\* POST /documents/upload-zip: validates the archive, extracts and filters
\* the PDFs, and either fails (corrupt archive, no PDF found) without
\* touching the store or hands the files to upload_documents_bulk, whose
\* single database transaction either commits every document or, on a
\* transaction failure, rolls back and stores none.
UploadZip(a, commit) ==
  /\ batch.pc = "idle"
  /\ LET files == FilterValidPdfs(a.entries)
     IN IF a.corrupt \/ Len(files) = 0
          THEN /\ batch' = [IdleBatch EXCEPT
                    !.pc = "error", !.archive = a, !.error = "validation"]
               /\ UNCHANGED <<status, origin, nextId>>
          ELSE IF ~commit
          THEN /\ batch' = [IdleBatch EXCEPT
                    !.pc = "error", !.archive = a, !.error = "transaction"]
               /\ UNCHANGED <<status, origin, nextId>>
          ELSE UploadDocumentsBulk(a, files)
  /\ UNCHANGED <<triggered, returned>>
  /\ response' = NoResponse
  /\ UNCHANGED <<review, clientVars>>
  /\ UNCHANGED <<generation, prediction, tasks, writeLog, coalesced>>

\* upload_documents_bulk, second half: asyncio.gather sends the parsing
\* trigger of every created document; the triggers run concurrently.
TriggerParsing(d) ==
  /\ batch.pc = "triggering"
  /\ d \in BatchDocs
  /\ d \notin triggered
  /\ triggered' = triggered \cup {d}
  /\ UNCHANGED <<status, origin, returned, batch, nextId>>
  /\ response' = NoResponse
  /\ UNCHANGED <<review, clientVars>>
  /\ UNCHANGED <<generation, prediction, tasks, writeLog, coalesced>>

\* Variant of BatchReturn that does not wait for the parsing triggers.
BatchReturnEarly ==
  /\ batch.pc = "triggering"
  /\ batch' = [batch EXCEPT
       !.pc = "returned",
       !.resp = [total_documents |-> Len(batch.docs),
                 documents |-> [k \in DOMAIN batch.docs |->
                   [upload_id |-> batch.docs[k], status |-> "received"]]]]
  /\ returned' = [d \in DocIds |-> IF d \in BatchDocs THEN "received" ELSE returned[d]]
  /\ UNCHANGED <<status, origin, triggered, nextId>>
  /\ response' = NoResponse
  /\ UNCHANGED <<review, clientVars>>
  /\ UNCHANGED <<generation, prediction, tasks, writeLog, coalesced>>

\* The gather has completed: the call returns the batch summary, listing
\* the created documents with the status they were created with.
BatchReturn ==
  /\ batch.pc = "triggering"
  /\ BatchDocs \subseteq triggered
  /\ batch' = [batch EXCEPT
       !.pc = "returned",
       !.resp = [total_documents |-> Len(batch.docs),
                 documents |-> [k \in DOMAIN batch.docs |->
                   [upload_id |-> batch.docs[k], status |-> "received"]]]]
  /\ returned' = [d \in DocIds |-> IF d \in BatchDocs THEN "received" ELSE returned[d]]
  /\ UNCHANGED <<status, origin, triggered, nextId>>
  /\ response' = NoResponse
  /\ UNCHANGED <<review, clientVars>>
  /\ UNCHANGED <<generation, prediction, tasks, writeLog, coalesced>>

\* ------------------------------------------------------ parsing stage
StartParsing(d) ==
  /\ status[d] = "received"
  /\ d \in triggered
  /\ status' = [status EXCEPT ![d] = "extracting"]
  /\ UNCHANGED <<generation, prediction, tasks, writeLog, coalesced>>
  /\ UNCHANGED intakeVars
  /\ response' = NoResponse
  /\ UNCHANGED <<review, clientVars>>

ParsingSucceeds(d) ==
  /\ status[d] = "extracting"
  /\ status' = [status EXCEPT ![d] = "extracted"]
  /\ UNCHANGED <<generation, prediction, tasks, writeLog, coalesced>>
  /\ UNCHANGED intakeVars
  /\ response' = NoResponse
  /\ UNCHANGED <<review, clientVars>>

\* Variant of ParsingFails in which the failure of one file of a ZIP
\* upload fails every document of that upload.
ParsingFailsWholeBatch(d) ==
  /\ status[d] = "extracting"
  /\ status' = [e \in DocIds |->
       IF e = d \/ (d \in BatchDocs /\ e \in BatchDocs)
         THEN "extracting_failed" ELSE status[e]]
  /\ UNCHANGED <<generation, prediction, tasks, writeLog, coalesced>>
  /\ UNCHANGED intakeVars
  /\ response' = NoResponse
  /\ UNCHANGED <<review, clientVars>>

ParsingFails(d) ==
  /\ status[d] = "extracting"
  /\ status' = [status EXCEPT ![d] = "extracting_failed"]
  /\ UNCHANGED <<generation, prediction, tasks, writeLog, coalesced>>
  /\ UNCHANGED intakeVars
  /\ response' = NoResponse
  /\ UNCHANGED <<review, clientVars>>

\* -------------------------------------------------- structuring stage
\* Variant of StartStructuring that also takes up a document whose parsing
\* has failed.
StartStructuringAfterFailure(d) ==
  /\ status[d] \in {"extracted", "extracting_failed"}
  /\ status' = [status EXCEPT ![d] = "structuring"]
  /\ UNCHANGED <<generation, prediction, tasks, writeLog, coalesced>>
  /\ UNCHANGED intakeVars
  /\ response' = NoResponse
  /\ UNCHANGED <<review, clientVars>>

StartStructuring(d) ==
  /\ status[d] = "extracted"
  /\ status' = [status EXCEPT ![d] = "structuring"]
  /\ UNCHANGED <<generation, prediction, tasks, writeLog, coalesced>>
  /\ UNCHANGED intakeVars
  /\ response' = NoResponse
  /\ UNCHANGED <<review, clientVars>>

StructuringSucceeds(d) ==
  /\ status[d] = "structuring"
  /\ status' = [status EXCEPT ![d] = "structured"]
  /\ UNCHANGED <<generation, prediction, tasks, writeLog, coalesced>>
  /\ UNCHANGED intakeVars
  /\ response' = NoResponse
  /\ UNCHANGED <<review, clientVars>>

StructuringFails(d) ==
  /\ status[d] = "structuring"
  /\ status' = [status EXCEPT ![d] = "structuring_failed"]
  /\ UNCHANGED <<generation, prediction, tasks, writeLog, coalesced>>
  /\ UNCHANGED intakeVars
  /\ response' = NoResponse
  /\ UNCHANGED <<review, clientVars>>

\* ------------------------------------------- asynchronous prediction
InFlight(d) == \E t \in tasks : t.doc = d

\* Variant of Dispatch that starts a task for every dispatch.
DispatchAlways(d, g) ==
  /\ tasks' = tasks \cup {[doc |-> d, gen |-> g]}
  /\ coalesced' = coalesced

\* Background Task Runner dispatch(document_id, generation_token): a
\* dispatch for a document that already has a task in flight is coalesced.
Dispatch(d, g) ==
  IF InFlight(d)
    THEN /\ tasks' = tasks
         /\ coalesced' = coalesced \cup {d}
    ELSE /\ tasks' = tasks \cup {[doc |-> d, gen |-> g]}
         /\ coalesced' = coalesced

\* Variant of PredictAsync that starts the task without storing the
\* pending record.
PredictAsyncNoRecord(d) ==
  /\ status[d] = "structured"
  /\ generation[d] < MaxGen
  /\ generation' = [generation EXCEPT ![d] = @ + 1]
  /\ status' = [status EXCEPT ![d] = "prediction_pending"]
  /\ Dispatch(d, generation[d] + 1)
  /\ UNCHANGED <<prediction, writeLog>>
  /\ UNCHANGED intakeVars
  /\ response' = NoResponse
  /\ UNCHANGED <<review, clientVars>>

\* Variant of PredictAsync whose call to the prediction service is lost.
PredictAsyncDropped(d) ==
  /\ status[d] = "structured"
  /\ UNCHANGED vars

\* POST /predictions/predict-async, called by information-structuring once
\* the document is structured: stores a pending record, starts the
\* background task and returns at once.
PredictAsync(d) ==
  /\ status[d] = "structured"
  /\ generation[d] < MaxGen
  /\ generation' = [generation EXCEPT ![d] = @ + 1]
  /\ prediction' = [prediction EXCEPT ![d] = [status |-> "pending", gen |-> generation[d] + 1]]
  /\ status' = [status EXCEPT ![d] = "prediction_pending"]
  /\ Dispatch(d, generation[d] + 1)
  /\ UNCHANGED writeLog
  /\ UNCHANGED intakeVars
  /\ response' = NoResponse
  /\ UNCHANGED <<review, clientVars>>

\* Variant of IsCurrent that lets every write-back through.
IsCurrentAlways(t) == TRUE

\* The generation-token check at write-back.
IsCurrent(t) == t.gen = generation[t.doc]

\* Variant of WriteBack in which the finished task's outcome is lost.
WriteBackDropped(t, outcome) ==
  /\ t \in tasks
  /\ tasks' = tasks \ {t}
  /\ UNCHANGED <<status, generation, prediction, writeLog, coalesced>>
  /\ UNCHANGED intakeVars
  /\ response' = NoResponse
  /\ UNCHANGED <<review, clientVars>>

\* Variant of WriteBack that overwrites the whole prediction record, the
\* reviewer annotation included.
WriteBackWholeRecord(t, outcome) ==
  /\ t \in tasks
  /\ tasks' = tasks \ {t}
  /\ writeLog' = [writeLog EXCEPT ![t.doc] =
       Append(@, [gen |-> t.gen, at |-> generation[t.doc], outcome |-> outcome,
                  applied |-> IsCurrent(t)])]
  /\ IF IsCurrent(t)
       THEN /\ prediction' = [prediction EXCEPT ![t.doc] = [status |-> outcome, gen |-> t.gen]]
            /\ status' = [status EXCEPT ![t.doc] =
                 IF outcome = "completed" THEN "prediction_completed" ELSE "prediction_failed"]
            /\ review' = [review EXCEPT ![t.doc] = NoReview]
       ELSE UNCHANGED <<prediction, status, review>>
  /\ UNCHANGED <<generation, coalesced>>
  /\ UNCHANGED intakeVars
  /\ response' = NoResponse
  /\ UNCHANGED clientVars

\* The background task ends: generate_prediction(force_recompute) overwrites
\* the pending record with the outcome, unless the task's generation has
\* been superseded, in which case the write is discarded as stale.
WriteBack(t, outcome) ==
  /\ t \in tasks
  /\ tasks' = tasks \ {t}
  /\ writeLog' = [writeLog EXCEPT ![t.doc] =
       Append(@, [gen |-> t.gen, at |-> generation[t.doc], outcome |-> outcome,
                  applied |-> IsCurrent(t)])]
  /\ IF IsCurrent(t)
       THEN /\ prediction' = [prediction EXCEPT ![t.doc] = [status |-> outcome, gen |-> t.gen]]
            /\ status' = [status EXCEPT ![t.doc] =
                 IF outcome = "completed" THEN "prediction_completed" ELSE "prediction_failed"]
       ELSE UNCHANGED <<prediction, status>>
  /\ UNCHANGED <<generation, coalesced>>
  /\ UNCHANGED intakeVars
  /\ response' = NoResponse
  /\ UNCHANGED <<review, clientVars>>

\* Variant of TaskCompletes that leaves the finished task scheduled, so
\* that it can write back again.
TaskCompletesKeepsTask(t) ==
  /\ t \in tasks
  /\ Len(writeLog[t.doc]) < MaxGen + 1
  /\ tasks' = tasks
  /\ writeLog' = [writeLog EXCEPT ![t.doc] =
       Append(@, [gen |-> t.gen, at |-> generation[t.doc], outcome |-> "completed",
                  applied |-> IsCurrent(t)])]
  /\ IF IsCurrent(t)
       THEN /\ prediction' = [prediction EXCEPT ![t.doc] = [status |-> "completed", gen |-> t.gen]]
            /\ status' = [status EXCEPT ![t.doc] = "prediction_completed"]
       ELSE UNCHANGED <<prediction, status>>
  /\ UNCHANGED <<generation, coalesced>>
  /\ UNCHANGED intakeVars
  /\ response' = NoResponse
  /\ UNCHANGED <<review, clientVars>>

TaskCompletes(t) == WriteBack(t, "completed")

\* Variant of TaskFails that puts the document back to structured instead
\* of recording the failure.
TaskFailsRollsBack(t) ==
  /\ t \in tasks
  /\ tasks' = tasks \ {t}
  /\ status' = [status EXCEPT ![t.doc] = "structured"]
  /\ prediction' = [prediction EXCEPT ![t.doc] = NoPrediction]
  /\ UNCHANGED <<generation, writeLog, coalesced>>
  /\ UNCHANGED intakeVars
  /\ response' = NoResponse
  /\ UNCHANGED <<review, clientVars>>

\* Variant of TaskFails in which the runner records the failure and runs
\* the task again by itself.
TaskFailsRunsAgain(t) ==
  /\ t \in tasks
  /\ Len(writeLog[t.doc]) < MaxGen + 1
  /\ tasks' = tasks
  /\ writeLog' = [writeLog EXCEPT ![t.doc] =
       Append(@, [gen |-> t.gen, at |-> generation[t.doc], outcome |-> "failed",
                  applied |-> IsCurrent(t)])]
  /\ IF IsCurrent(t)
       THEN /\ prediction' = [prediction EXCEPT ![t.doc] = [status |-> "failed", gen |-> t.gen]]
            /\ status' = [status EXCEPT ![t.doc] = "prediction_failed"]
       ELSE UNCHANGED <<prediction, status>>
  /\ UNCHANGED <<generation, coalesced>>
  /\ UNCHANGED intakeVars
  /\ response' = NoResponse
  /\ UNCHANGED <<review, clientVars>>

TaskFails(t) == WriteBack(t, "failed")

\* Variant of RunnerCrash in which the lost task's document is marked as
\* failed.
RunnerCrashMarksFailed(t) ==
  /\ t \in tasks
  /\ tasks' = tasks \ {t}
  /\ status' = [status EXCEPT ![t.doc] = "prediction_failed"]
  /\ prediction' = [prediction EXCEPT ![t.doc] = [status |-> "failed", gen |-> generation[t.doc]]]
  /\ UNCHANGED <<generation, writeLog, coalesced>>
  /\ UNCHANGED intakeVars
  /\ response' = NoResponse
  /\ UNCHANGED <<review, clientVars>>

\* The runner process dies before the task's write-back.
RunnerCrash(t) ==
  /\ t \in tasks
  /\ tasks' = tasks \ {t}
  /\ UNCHANGED <<status, generation, prediction, writeLog, coalesced>>
  /\ UNCHANGED intakeVars
  /\ response' = NoResponse
  /\ UNCHANGED <<review, clientVars>>

\* ---------------------------------------------------------------- retry
Stages == {"extraction", "structuring", "prediction"}

\* Variant of RetryAllowed that accepts a retry of any stored document.
RetryAllowedAlways(d, stage) == status[d] # NoDoc

RetryAllowed(d, stage) ==
  CASE stage = "extraction" -> status[d] = "extracting_failed"
    [] stage = "structuring" -> status[d] = "structuring_failed"
    [] stage = "prediction" ->
         status[d] \in {"prediction_failed", "prediction_completed", "prediction_pending"}

\* Variant of Retry that dispatches the prediction again under the current
\* generation.
RetryKeepsGeneration(d, stage) ==
  /\ RetryAllowed(d, stage)
  /\ CASE stage = "extraction" ->
            /\ status' = [status EXCEPT ![d] = "extracting"]
            /\ UNCHANGED <<generation, prediction, tasks, coalesced>>
       [] stage = "structuring" ->
            /\ status' = [status EXCEPT ![d] = "structuring"]
            /\ UNCHANGED <<generation, prediction, tasks, coalesced>>
       [] stage = "prediction" ->
            /\ status[d] # "prediction_pending"
            /\ UNCHANGED generation
            /\ prediction' = [prediction EXCEPT ![d] = [status |-> "pending", gen |-> generation[d]]]
            /\ status' = [status EXCEPT ![d] = "prediction_pending"]
            /\ Dispatch(d, generation[d])
  /\ UNCHANGED writeLog
  /\ UNCHANGED intakeVars
  /\ response' = NoResponse
  /\ UNCHANGED <<review, clientVars>>

\* retry(document_id, stage): re-invokes the stage from its predecessor
\* state; a prediction retry opens a new generation and dispatches it.
Retry(d, stage) ==
  /\ RetryAllowed(d, stage)
  /\ stage = "prediction" => generation[d] < MaxGen
  /\ CASE stage = "extraction" ->
            /\ status' = [status EXCEPT ![d] = "extracting"]
            /\ UNCHANGED <<generation, prediction, tasks, coalesced>>
       [] stage = "structuring" ->
            /\ status' = [status EXCEPT ![d] = "structuring"]
            /\ UNCHANGED <<generation, prediction, tasks, coalesced>>
       [] stage = "prediction" ->
            /\ generation' = [generation EXCEPT ![d] = @ + 1]
            /\ prediction' = [prediction EXCEPT ![d] = [status |-> "pending", gen |-> generation[d] + 1]]
            /\ status' = [status EXCEPT ![d] = "prediction_pending"]
            /\ Dispatch(d, generation[d] + 1)
  /\ UNCHANGED writeLog
  /\ UNCHANGED intakeVars
  /\ response' = NoResponse
  /\ UNCHANGED <<review, clientVars>>

\* ------------------------------------------------- validation of uploads
MaxFileSizeMB == 10

MaxZipSizeMB == 100

\* File sizes in MB around the limit, and 0 for an empty file.
FileSizes == {0, 1, MaxFileSizeMB, MaxFileSizeMB + 1}

FileTypes == {"pdf", "other"}

Files == [size : FileSizes, type : FileTypes]

\* Everything but the answer of the last call.
storeVars ==
  <<status, origin, triggered, returned, generation, prediction, tasks,
    writeLog, coalesced, batch, nextId>>

\* Variant of ValidateFileSize that applies the limit of ZIP archives.
ValidateFileSizeAsZip(f) == f.size <= MaxZipSizeMB

\* validate_file_size for a single file.
ValidateFileSize(f) == f.size <= MaxFileSizeMB

\* validate_upload_file for a single file: not empty, within the size
\* limit, of an allowed type.
ValidateUploadFile(f) ==
  /\ f.size > 0
  /\ ValidateFileSize(f)
  /\ f.type = "pdf"

\* The upload is refused with a validation error before anything is stored.
UploadRejected(f) ==
  /\ ~ValidateUploadFile(f)
  /\ response' = [op |-> "upload", arg |-> <<>>, result |-> <<"validation_error">>]
  /\ UNCHANGED storeVars
  /\ UNCHANGED <<review, clientVars>>

\* POST /documents/upload with its validation.
UploadFile(d, f) ==
  IF ValidateUploadFile(f) THEN UploadDocument(d) ELSE UploadRejected(f)

\* ------------------------------------------------------- retry, refused
RetryRejected(d, stage) ==
  /\ status[d] # NoDoc
  /\ ~RetryAllowed(d, stage)
  /\ response' = [op |-> "retry", arg |-> <<d>>, result |-> <<"rejected">>]
  /\ UNCHANGED storeVars
  /\ UNCHANGED <<review, clientVars>>

\* retry(document_id, stage) with its guard.
RetryCall(d, stage) ==
  IF RetryAllowed(d, stage) THEN Retry(d, stage) ELSE RetryRejected(d, stage)

\* ---------------------------------------------------------------- reads
\* The status the document-ingestion service holds for a document: it
\* moves uploaded -> parsed -> structured as the stages complete; the
\* prediction has its own record in the risk-prediction service.
ServiceStatus(s) ==
  CASE s \in {"received", "extracting"} -> "uploaded"
    [] s \in {"extracted", "structuring"} -> "parsed"
    [] s \in {"extracting_failed", "structuring_failed"} -> "failed"
    [] OTHER -> "structured"

mapDocumentStatus(s) ==
  CASE s = "pending" -> "pending"
    [] s = "processing" -> "processing"
    [] s \in {"completed", "uploaded"} -> "uploaded"
    [] s = "parsed" -> "parsed"
    [] s = "structured" -> "structured"
    [] s \in {"failed", "error"} -> "failed"
    [] OTHER -> "pending"

\* Variant of DocumentJson in which the service leaves created_at out.
DocumentJsonNoTimestamp(d) ==
  [status |-> ServiceStatus(status[d]), created_at |-> NoTime]

\* The body of GET /documents/{id}: the status and the creation time of the
\* stored document.
DocumentJson(d) ==
  [status |-> ServiceStatus(status[d]), created_at |-> d]

\* The DocumentStatus getDocument builds from the body: the mapped status
\* and created_at, which falls back to the client's clock when absent.
DocumentStatusOf(doc, now) ==
  <<mapDocumentStatus(doc.status),
    IF doc.created_at # NoTime THEN doc.created_at ELSE now>>

getDocument(d) ==
  /\ response' \in
       {[op |-> "getDocument", arg |-> <<d>>,
         result |-> IF status[d] = NoDoc
                      THEN <<"error">>
                      ELSE DocumentStatusOf(DocumentJson(d), now)] : now \in Times}
  /\ UNCHANGED storeVars
  /\ UNCHANGED <<review, clientVars>>

\* Variant of getRiskPrediction whose request makes the service compute a
\* missing prediction.
getRiskPredictionComputing(d) ==
  /\ response' =
       [op |-> "getRiskPrediction", arg |-> <<d>>,
        result |-> IF prediction[d].status = "none"
                     THEN <<"not_found">>
                     ELSE <<prediction[d].status>>]
  /\ tasks' = IF prediction[d].status = "none" /\ status[d] # NoDoc
               THEN tasks \cup {[doc |-> d, gen |-> 0]} ELSE tasks
  /\ UNCHANGED <<status, origin, triggered, returned, generation, prediction,
                 writeLog, coalesced, batch, nextId>>
  /\ UNCHANGED <<review, clientVars>>

getRiskPrediction(d) ==
  /\ response' =
       [op |-> "getRiskPrediction", arg |-> <<d>>,
        result |-> IF prediction[d].status = "none"
                     THEN <<"not_found">>
                     ELSE <<prediction[d].status>>]
  /\ UNCHANGED storeVars
  /\ UNCHANGED <<review, clientVars>>

Min(a, b) == IF a <= b THEN a ELSE b

listDocuments(page, pageSize) ==
  LET first == (page - 1) * pageSize + 1
      last == Min(page * pageSize, nextId - 1)
      n == IF last >= first THEN last - first + 1 ELSE 0
  IN /\ response' =
          [op |-> "listDocuments", arg |-> <<page, pageSize>>,
           result |-> [k \in 1..n |->
                         mapDocumentStatus(ServiceStatus(status[first + k - 1]))]]
     /\ UNCHANGED storeVars
     /\ UNCHANGED <<review, clientVars>>

\* ------------------------------------------------------- review update
\* Variant of ReviewAllowed that accepts the update as soon as a prediction
\* record exists, whatever its status.
ReviewAllowedAnyRecord(d) == prediction[d].status # "none"

\* The review-update is refused while no prediction exists for the document.
ReviewAllowed(d) == prediction[d].status = "completed"

\* The PredictionResult of a prediction record and its annotation.
PredictionResult(p, r) ==
  [status |-> p.status, review_status |-> r.review_status,
   coordinator_notes |-> r.coordinator_notes]

\* The review-update writes the review annotation fields and nothing else.
ReviewUpdate(d, annotation) ==
  /\ review' = [review EXCEPT ![d] = annotation]
  /\ UNCHANGED storeVars

\* PATCH /predictions/document/{id}/review with review_status and
\* coordinator_notes (null for empty notes); an answer that is not ok is
\* thrown as an error.
updateReviewStatus(d, reviewStatus, coordinatorNotes) ==
  LET body == [review_status |-> reviewStatus,
               coordinator_notes |->
                 IF coordinatorNotes = "" THEN Null ELSE coordinatorNotes]
  IN IF ReviewAllowed(d)
       THEN /\ ReviewUpdate(d, body)
            /\ response' = [op |-> "updateReviewStatus", arg |-> <<d>>,
                            result |-> <<"ok">>]
       ELSE /\ response' = [op |-> "updateReviewStatus", arg |-> <<d>>,
                            result |-> <<"error",
                              IF status[d] = NoDoc THEN "not_found" ELSE "conflict">>]
            /\ UNCHANGED review
            /\ UNCHANGED storeVars

\* A coordinator's review-update sent on its own; the history notes that
\* the annotation was written since the portal last showed the document.
ReviewCall(d, reviewStatus, coordinatorNotes) ==
  /\ updateReviewStatus(d, reviewStatus, coordinatorNotes)
  /\ observed' = [observed EXCEPT ![d].reviewed = @ \/ review'[d] # review[d]]
  /\ UNCHANGED <<reportPage, demoPage, call>>

\* --------------------------------------------------------- polling clients
\* The clinic portal refreshes a document's status: getDocument, and what
\* the portal showed for the document before.
RefreshDocument(d, now) ==
  /\ status[d] # NoDoc
  /\ LET view == DocumentStatusOf(DocumentJson(d), now)
     IN /\ observed' = [observed EXCEPT ![d] =
             [@ EXCEPT !.document = view, !.at = status[d], !.reviewed = FALSE,
                       !.repeated = /\ observed[d].document # <<>>
                                    /\ observed[d].at = status[d]
                                    /\ observed[d].reviewed]]
        /\ response' = [op |-> "getDocument", arg |-> <<d>>, result |-> view]
  /\ UNCHANGED storeVars
  /\ UNCHANGED <<review, reportPage, demoPage, call>>

\* The status in the answer of GET /predictions/document/{id}.
PredictionStatus(d) ==
  IF prediction[d].status = "none" THEN "not_found" ELSE prediction[d].status

\* One round of the prediction polling loop: the status the poll returns,
\* the generation it was taken at, and the generation of the last poll that
\* returned completed or failed.
CheckPrediction(d) ==
  /\ status[d] # NoDoc
  /\ observed' = [observed EXCEPT ![d] =
       [@ EXCEPT !.prediction = PredictionStatus(d), !.gen = generation[d],
                 !.terminal = IF PredictionStatus(d) \in {"completed", "failed"}
                                THEN generation[d] ELSE @]]
  /\ response' = [op |-> "getRiskPrediction", arg |-> <<d>>,
                  result |-> <<PredictionStatus(d)>>]
  /\ UNCHANGED storeVars
  /\ UNCHANGED <<review, reportPage, demoPage, call>>

\* --------------------------------------------------- report detail page
\* What the page's getDocument call settles to: the DocumentStatus, or
\* nothing when the call throws.
DocumentOf(d) ==
  IF status[d] = NoDoc
    THEN NoDocument
    ELSE [upload_id |-> d, status |-> DocumentStatusOf(DocumentJson(d), NoTime)[1]]

\* What the page's getRiskPrediction call settles to: the stored record,
\* whatever its status, or nothing when the answer is 404 and the call
\* throws.
PredictionOf(d) ==
  IF prediction[d].status = "none"
    THEN NoPredictionResult
    ELSE PredictionResult(prediction[d], review[d])

\* The page is opened for document d: useEffect runs loadReportDetails, up
\* to its await.
loadReportDetails(d) ==
  /\ reportPage.pc = "closed"
  /\ reportPage' = [reportPage EXCEPT !.pc = "loading", !.id = d,
                                      !.isLoading = TRUE, !.error = ""]
  /\ response' = NoResponse
  /\ UNCHANGED storeVars
  /\ UNCHANGED <<review, observed, demoPage, call>>

\* The four requests of loadReportDetails have settled: the report is set
\* from them, once.
loadReportDetailsSettles ==
  /\ reportPage.pc = "loading"
  /\ LET p == PredictionOf(reportPage.id)
         rs == IF p.review_status # Null THEN p.review_status ELSE "New"
         notes == IF p.coordinator_notes # Null THEN p.coordinator_notes ELSE ""
     IN reportPage' = [reportPage EXCEPT
          !.pc = "ready",
          !.report = [document |-> DocumentOf(reportPage.id), prediction |-> p,
                      reviewStatus |-> rs, internalNotes |-> notes],
          !.reviewStatus = rs,
          !.internalNotes = notes,
          !.isLoading = FALSE]
  /\ response' = NoResponse
  /\ UNCHANGED storeVars
  /\ UNCHANGED <<review, observed, demoPage, call>>

\* The page shows its form: it is not loading and has no error.
FormShown == reportPage.pc = "ready" /\ reportPage.error = ""

\* The coordinator picks a review status.
setReviewStatus(rs) ==
  /\ FormShown
  /\ reportPage' = [reportPage EXCEPT !.reviewStatus = rs]
  /\ response' = NoResponse
  /\ UNCHANGED storeVars
  /\ UNCHANGED <<review, observed, demoPage, call>>

\* The coordinator types notes.
setInternalNotes(notes) ==
  /\ FormShown
  /\ reportPage' = [reportPage EXCEPT !.internalNotes = notes]
  /\ response' = NoResponse
  /\ UNCHANGED storeVars
  /\ UNCHANGED <<review, observed, demoPage, call>>

\* Save Changes is clicked: handleSaveChanges returns if the report has no
\* document, and otherwise sends the PATCH of updateReviewStatus.
handleSaveChanges ==
  /\ FormShown
  /\ reportPage.report.document # NoDocument
  /\ reportPage' = [reportPage EXCEPT !.pc = "saving", !.isLoading = TRUE, !.error = ""]
  /\ response' = NoResponse
  /\ UNCHANGED storeVars
  /\ UNCHANGED <<review, observed, demoPage, call>>

\* The PATCH is answered: the report takes the updated prediction, or the
\* page takes the error.
handleSaveChangesSettles ==
  /\ reportPage.pc = "saving"
  /\ LET d == reportPage.report.document.upload_id
     IN /\ updateReviewStatus(d, reportPage.reviewStatus, reportPage.internalNotes)
        /\ reportPage' =
             IF response'.result[1] = "ok"
               THEN [reportPage EXCEPT
                       !.pc = "ready", !.isLoading = FALSE,
                       !.report = [@ EXCEPT
                          !.prediction = PredictionResult(prediction[d], review'[d]),
                          !.reviewStatus = reportPage.reviewStatus,
                          !.internalNotes = reportPage.internalNotes]]
               ELSE [reportPage EXCEPT
                       !.pc = "ready", !.isLoading = FALSE,
                       !.error = response'.result[2]]
  /\ UNCHANGED <<observed, demoPage, call>>

\* ---------------------------------------------------- demo pipeline page
\* The status the ingestion service lists for a document: uploaded, parsed,
\* structured or failed, and, once the prediction is there, structured or
\* predicted.
BackendStatuses(d) ==
  {ServiceStatus(status[d])}
    \cup (IF status[d] = "prediction_completed" THEN {"predicted"} ELSE {})

\* The statuses that keep a document out of the page's list.
Unlisted == {"pending", "uploaded"}

\* loadDocuments: listDocuments(1, 100), of which the page keeps the
\* documents that are at least parsed.
loadDocuments ==
  /\ \E body \in [{d \in DocIds : status[d] # NoDoc} ->
                    {"uploaded", "parsed", "structured", "failed", "predicted"}] :
       /\ \A d \in DOMAIN body : body[d] \in BackendStatuses(d)
       /\ demoPage' = [demoPage EXCEPT !.documents =
            {d \in DOMAIN body : mapDocumentStatus(body[d]) \notin Unlisted}]
  /\ response' = NoResponse
  /\ UNCHANGED storeVars
  /\ UNCHANGED <<review, observed, reportPage, call>>

\* A document of the list is selected: handleDocumentSelect sets the
\* selection and runs fetchPipelineData up to its await.
handleDocumentSelect(d) ==
  /\ d \in demoPage.documents
  /\ demoPage' = [demoPage EXCEPT !.selectedDocId = d, !.isLoading = TRUE, !.error = "",
                                  !.pipelineData = NoPipelineData,
                                  !.fetches = @ \cup {d}]
  /\ response' = NoResponse
  /\ UNCHANGED storeVars
  /\ UNCHANGED <<review, observed, reportPage, call>>

\* The four requests of fetchPipelineData(d) have settled: the page takes
\* their data and stops loading.
fetchPipelineDataSettles(d) ==
  /\ d \in demoPage.fetches
  /\ demoPage' = [demoPage EXCEPT
       !.pipelineData =
          [document |-> DocumentOf(d),
           parsedText |-> IF Rank(status[d]) >= Rank("extracted") THEN "text" ELSE Null,
           structuredData |-> IF Rank(status[d]) >= Rank("structured") THEN "data" ELSE Null,
           prediction |-> PredictionOf(d)],
       !.isLoading = FALSE,
       !.fetches = @ \ {d}]
  /\ response' = NoResponse
  /\ UNCHANGED storeVars
  /\ UNCHANGED <<review, observed, reportPage, call>>

getStepStatus(step) ==
  IF demoPage.pipelineData = NoPipelineData
    THEN "pending"
    ELSE CASE step = "ingestion" ->
                IF demoPage.pipelineData.document # NoDocument THEN "completed" ELSE "pending"
           [] step = "parsing" ->
                IF demoPage.pipelineData.parsedText # Null THEN "completed" ELSE "pending"
           [] step = "structuring" ->
                IF demoPage.pipelineData.structuredData # Null THEN "completed" ELSE "pending"
           [] step = "prediction" ->
                IF demoPage.pipelineData.prediction # NoPredictionResult
                  THEN "completed" ELSE "pending"
           [] OTHER -> "pending"

\* ------------------------------------------- a getRiskPrediction call
\* getRiskPrediction(d) sends its request.
getRiskPredictionRequest(d) ==
  /\ call.pc # "waiting"
  /\ call' = [pc |-> "waiting", doc |-> d, attempts |-> 1, result |-> "none"]
  /\ response' = NoResponse
  /\ UNCHANGED storeVars
  /\ UNCHANGED <<review, observed, reportPage, demoPage>>

\* The request settles, answered by the service or failed on the way, and
\* the call returns the record or throws.
getRiskPredictionSettles(net) ==
  /\ call.pc = "waiting"
  /\ call' = [call EXCEPT
       !.pc = "done",
       !.result = IF net = "failed" THEN "error: failed to fetch"
                  ELSE IF PredictionStatus(call.doc) = "not_found"
                         THEN "error: prediction not found"
                         ELSE PredictionStatus(call.doc)]
  /\ response' = NoResponse
  /\ UNCHANGED storeVars
  /\ UNCHANGED <<review, observed, reportPage, demoPage>>

\* ------------------------------------------------------- specifications
\* The stages that run between upload and the dispatch of the prediction.
StageStep(d) ==
  \/ StartParsing(d)
  \/ ParsingSucceeds(d)
  \/ ParsingFails(d)
  \/ StartStructuring(d)
  \/ StructuringSucceeds(d)
  \/ StructuringFails(d)

\* The documents uploaded one by one and followed through prediction: half
\* of the store, rounded up.  The pipeline never couples two documents, so
\* the depth of one document's history (MaxGen) is what the runs explore.
PipelineDocs == 1..((MaxDocs + 1) \div 2)

\* One or more single uploads driven through the whole pipeline.
PipelineNext ==
  \/ \E d \in PipelineDocs : UploadDocument(d)
  \/ \E d \in PipelineDocs : StageStep(d)
  \/ \E d \in PipelineDocs : PredictAsync(d)
  \/ \E t \in tasks : TaskCompletes(t)
  \/ \E t \in tasks : TaskFails(t)
  \/ \E t \in tasks : RunnerCrash(t)
  \/ \E d \in PipelineDocs, stage \in Stages : Retry(d, stage)

SpecPipeline == Init /\ [][PipelineNext]_vars

\* ZIP uploads and single uploads, with the documents moving through the
\* stages up to the dispatch of their prediction.
BatchNext ==
  \/ \E a \in Archives, commit \in BOOLEAN : UploadZip(a, commit)
  \/ \E d \in DocIds : TriggerParsing(d)
  \/ BatchReturn
  \/ \E d \in DocIds : UploadDocument(d)
  \/ \E d \in DocIds : StageStep(d)

SpecBatch == Init /\ [][BatchNext]_vars

\* The structuring service calls predict-async by itself once a document
\* is structured.
PredictionTriggered == \A d \in PipelineDocs : WF_vars(PredictAsync(d))

\* The pipeline with the prediction trigger taken as soon as it can be.
SpecPipelineFair == SpecPipeline /\ PredictionTriggered

\* The pipeline with a runner that does not crash.
RunnerNext ==
  \/ \E d \in PipelineDocs : UploadDocument(d)
  \/ \E d \in PipelineDocs : StageStep(d)
  \/ \E d \in PipelineDocs : PredictAsync(d)
  \/ \E t \in tasks : TaskCompletes(t)
  \/ \E t \in tasks : TaskFails(t)
  \/ \E d \in PipelineDocs, stage \in Stages : Retry(d, stage)

\* The runner ends every task it holds: the prediction returns a result,
\* fails, or exceeds its timeout, which is a failure.
RunnerFair ==
  \A d \in PipelineDocs :
    WF_vars(\E t \in tasks : t.doc = d /\ (TaskCompletes(t) \/ TaskFails(t)))

SpecRunnerFair ==
  Init /\ [][RunnerNext]_vars /\ PredictionTriggered /\ RunnerFair

\* The pipeline as its callers drive it: uploads with their validation,
\* retries with their guard, and the reads.
ApiNext ==
  \/ \E f \in Files : nextId \in PipelineDocs /\ UploadFile(nextId, f)
  \/ \E d \in PipelineDocs : StageStep(d)
  \/ \E d \in PipelineDocs : PredictAsync(d)
  \/ \E t \in tasks : TaskCompletes(t)
  \/ \E t \in tasks : TaskFails(t)
  \/ \E t \in tasks : RunnerCrash(t)
  \/ \E d \in PipelineDocs, stage \in Stages : RetryCall(d, stage)
  \/ \E d \in PipelineDocs : getDocument(d)
  \/ \E d \in PipelineDocs : getRiskPrediction(d)
  \/ \E page \in PipelineDocs, pageSize \in PipelineDocs : listDocuments(page, pageSize)

SpecApi == Init /\ [][ApiNext]_vars

\* The document that the coordinator and the polling clients follow: the
\* first one uploaded.
FirstDoc == {d \in DocIds : \A e \in DocIds : d <= e}

\* The pipeline of one document with a coordinator who reviews its
\* prediction and a clinic portal that refreshes it, while other documents
\* are uploaded.
ReviewNext ==
  \/ \E d \in PipelineDocs : UploadDocument(d)
  \/ \E d \in FirstDoc : StageStep(d)
  \/ \E d \in FirstDoc : PredictAsync(d)
  \/ \E t \in tasks : TaskCompletes(t)
  \/ \E t \in tasks : TaskFails(t)
  \/ \E d \in FirstDoc : Retry(d, "prediction")
  \/ \E d \in FirstDoc, rs \in ReviewStatuses, notes \in Notes : ReviewCall(d, rs, notes)
  \/ \E d \in FirstDoc, now \in Times : RefreshDocument(d, now)

SpecReview == Init /\ [][ReviewNext]_vars

\* The pipeline of one document with a client that polls its prediction.
PollingNext ==
  \/ \E d \in FirstDoc : UploadDocument(d)
  \/ \E d \in FirstDoc : StageStep(d)
  \/ \E d \in FirstDoc : PredictAsync(d)
  \/ \E t \in tasks : TaskCompletes(t)
  \/ \E t \in tasks : TaskFails(t)
  \/ \E t \in tasks : RunnerCrash(t)
  \/ \E d \in FirstDoc, stage \in Stages : Retry(d, stage)
  \/ \E d \in FirstDoc : CheckPrediction(d)

SpecPolling == Init /\ [][PollingNext]_vars

\* The pipeline of one document, without retries.
Processing(d) ==
  \/ UploadDocument(d)
  \/ StageStep(d)
  \/ PredictAsync(d)
  \/ \E t \in tasks : t.doc = d /\ TaskCompletes(t)
  \/ \E t \in tasks : t.doc = d /\ TaskFails(t)

\* A coordinator on the report detail page of the first document.
ReportNext ==
  \/ \E d \in FirstDoc : Processing(d)
  \/ \E d \in FirstDoc : loadReportDetails(d)
  \/ loadReportDetailsSettles
  \/ \E rs \in ReviewStatuses : setReviewStatus(rs)
  \/ \E notes \in Notes : setInternalNotes(notes)
  \/ handleSaveChanges
  \/ handleSaveChangesSettles

SpecReport == Init /\ [][ReportNext]_vars

\* The browser settles the page's requests; the services run the stages
\* and the prediction task to an end.  Nothing obliges the coordinator to
\* act.
ReportFair ==
  /\ WF_vars(loadReportDetailsSettles)
  /\ WF_vars(handleSaveChangesSettles)
  /\ \A d \in FirstDoc : WF_vars(Processing(d))

SpecReportFair == SpecReport /\ ReportFair

\* A user on the demo pipeline page while documents are processed.
DemoNext ==
  \/ \E d \in PipelineDocs : Processing(d)
  \/ loadDocuments
  \/ \E d \in PipelineDocs : handleDocumentSelect(d)
  \/ \E d \in PipelineDocs : fetchPipelineDataSettles(d)

SpecDemo == Init /\ [][DemoNext]_vars

\* The dashboard fetching the prediction of documents in the background.
DashboardNext ==
  \/ \E d \in PipelineDocs : Processing(d)
  \/ \E d \in PipelineDocs : getRiskPredictionRequest(d)
  \/ \E net \in {"answered", "failed"} : getRiskPredictionSettles(net)

SpecDashboard == Init /\ [][DashboardNext]_vars

Next == PipelineNext \/ BatchNext \/ ApiNext \/ ReviewNext \/ PollingNext
    \/ ReportNext \/ DemoNext \/ DashboardNext

Spec == Init /\ [][Next]_vars

\* ============================================================== claims
TasksOf(d) == {t \in tasks : t.doc = d}

Attempts(d, g) == {i \in DOMAIN writeLog[d] : writeLog[d][i].gen = g}

Applied(d, g) == {i \in Attempts(d, g) : writeLog[d][i].applied}

Generations == 1..MaxGen

\* C1: a finished task's write-back is applied only when the generation
\* token it was dispatched with equals the document's current prediction
\* generation, and is discarded otherwise; the stored prediction record is
\* therefore never the result of an older generation than the current one.
C1_StaleWriteRejected ==
  \A d \in DocIds :
    /\ \A i \in DOMAIN writeLog[d] :
         writeLog[d][i].applied <=> (writeLog[d][i].gen = writeLog[d][i].at)
    /\ prediction[d].status # "none" => prediction[d].gen = generation[d]

\* A task of an older generation has finished after a retry opened a newer
\* one: its write was discarded and the record is the newer generation's.
C1_Witness ==
  \E d \in DocIds :
    /\ \E i \in DOMAIN writeLog[d] :
         /\ ~writeLog[d][i].applied
         /\ writeLog[d][i].gen < writeLog[d][i].at
    /\ prediction[d].gen = generation[d]
    /\ prediction[d].status = "completed"

\* C2: in every reachable state each document has at most one prediction
\* task in flight; a dispatch issued while one is in flight is coalesced.
C2_AtMostOneTaskPerDocument ==
  \A d \in DocIds : Cardinality(TasksOf(d)) <= 1

\* A dispatch (of a newer generation) was coalesced with the task that is
\* still in flight.
C2_Witness ==
  \E d \in coalesced : \E t \in tasks : t.doc = d /\ t.gen < generation[d]

C4_ReturnsAfterStructuring ==
  \A d \in DocIds :
    returned[d] # NoDoc =>
      /\ status[d] \in FailedStates \/ Rank(status[d]) >= Rank("structured")
      /\ returned[d] # "prediction_completed"

\* The order in which one document's status may change from stage to stage.
StageOrder(from, to) ==
  /\ to = "received" => from = NoDoc
  /\ to = "extracting" => from \in {"received", "extracting_failed"}
  /\ to \in {"extracted", "extracting_failed"} => from = "extracting"
  /\ to = "structuring" => from \in {"extracted", "structuring_failed"}
  /\ to \in {"structured", "structuring_failed"} => from = "structuring"
  /\ to = "prediction_pending" =>
       from \in {"structured", "prediction_pending", "prediction_completed",
                 "prediction_failed"}
  /\ to \in {"prediction_completed", "prediction_failed"} => from = "prediction_pending"

\* C4 (amended): a single submission returns as soon as the Document is
\* stored, with status received (uploaded); the status advances received ->
\* extracted -> structured only afterwards, in that order, and the prediction
\* write-back can only happen after the call has returned, so the call never
\* returns prediction_completed.
C4_ReturnsAtReceived ==
  /\ [](\A d \in DocIds :
          /\ status[d] # NoDoc /\ origin[d] = 0 => returned[d] = "received"
          /\ returned[d] \in {NoDoc, "received"}
          /\ prediction[d].status # "none" => returned[d] # NoDoc)
  /\ [][\A d \in DocIds :
          status'[d] # status[d] => StageOrder(status[d], status'[d])]_vars

\* The call has returned received and the document has since been
\* structured and its prediction completed in the background.
C4_Witness ==
  \E d \in DocIds :
    /\ returned[d] = "received"
    /\ origin[d] = 0
    /\ status[d] = "prediction_completed"

BatchReturns == batch.pc = "triggering" /\ batch'.pc = "returned"

\* The step in which a ZIP upload call is answered for the archive it was
\* given: with an error, or by storing the documents.
ZipCalled == batch.pc = "idle" /\ batch'.pc # "idle"

PdfEntries(entries) == {i \in DOMAIN entries : entries[i] = "pdf"}

InProgress == {d \in BatchDocs : status[d] \in InProgressStates}

\* C6 (as claimed): a file's failure leaves the other files' documents
\* alone, and the batch result reports the failed documents as failed.
C6_IsolationAndFailuresReported ==
  /\ [][\A d \in DocIds :
          status'[d] \in FailedStates /\ status[d] \notin FailedStates =>
            \A e \in DocIds \ {d} : status'[e] = status[e]]_vars
  /\ [][BatchReturns =>
          \A k \in DOMAIN batch.docs :
            status[batch.docs[k]] \in FailedStates =>
              batch'.resp.documents[k].status = status[batch.docs[k]]]_vars

\* C6 (amended): the parsing or structuring failure of one document changes
\* no other document and not the ZIP call; no stored document is ever
\* removed; and the batch summary lists every stored document with status
\* uploaded (received), whether or not it has failed by then: failures are
\* not reported in it.
C6_IsolationResultListsUploaded ==
  /\ [][\A d \in DocIds :
          status'[d] \in FailedStates /\ status[d] \notin FailedStates =>
            /\ \A e \in DocIds \ {d} : status'[e] = status[e]
            /\ batch' = batch]_vars
  /\ [][\A d \in DocIds : status[d] # NoDoc => status'[d] # NoDoc]_vars
  /\ [](batch.pc = "returned" =>
          /\ Len(batch.resp.documents) = Len(batch.docs)
          /\ \A k \in DOMAIN batch.docs :
               /\ batch.resp.documents[k].upload_id = batch.docs[k]
               /\ batch.resp.documents[k].status = "received")

\* One document of the ZIP upload has failed a stage, another one of the
\* same upload has been structured, and the summary lists both as received.
C6_Witness ==
  /\ batch.pc = "returned"
  /\ \E j, k \in DOMAIN batch.docs :
       /\ status[batch.docs[j]] \in FailedStates
       /\ status[batch.docs[k]] = "structured"
       /\ batch.resp.documents[j].status = "received"

\* C7 (as claimed): at the step in which the ZIP upload call returns, every
\* document it created is structured or later, or failed.
C7_ReturnsAfterStructuring ==
  [][BatchReturns =>
       \A d \in BatchDocs :
         status[d] \in FailedStates \/ Rank(status[d]) >= Rank("structured")]_vars

\* C7 (amended): the ZIP upload call returns only after every accepted file
\* has been stored as a document and its parsing trigger has been sent; the
\* documents may then still be at received or in any later state.
C7_ReturnsAfterTriggers ==
  [][BatchReturns =>
       /\ batch.docs # <<>>
       /\ \A d \in BatchDocs : status[d] # NoDoc /\ d \in triggered]_vars

\* The call has returned while every document of the upload is still at
\* received.
C7_Witness ==
  /\ batch.pc = "returned"
  /\ Len(batch.docs) >= 2
  /\ \A d \in BatchDocs : status[d] = "received"

\* A pool size below the largest number of files an archive can hold.
PoolSize == MaxEntries - 1

\* C8 (as claimed): the number of documents of a ZIP upload that are in a
\* parsing or structuring stage at the same time never exceeds a fixed
\* pool size.
C8_BoundedByPool == Cardinality(InProgress) <= PoolSize

\* C8 (amended): there is no pool; the number of documents of a ZIP upload
\* that are in a parsing or structuring stage at the same time is bounded
\* only by the number of PDF files in the archive, and reaches it.
C8_BoundedByFileCount ==
  Cardinality(InProgress) <= Cardinality(PdfEntries(batch.archive.entries))

\* Every file of a full archive is in a stage at the same time.
C8_Witness ==
  /\ Len(batch.docs) = MaxEntries
  /\ InProgress = BatchDocs

\* C9: a ZIP upload of a corrupt archive, an empty archive or an archive
\* without any PDF entry is answered with a validation error and leaves the
\* document store as it was.
C9_InvalidArchiveRejected ==
  [][ZipCalled /\ (batch'.archive.corrupt \/ PdfEntries(batch'.archive.entries) = {}) =>
       /\ batch'.pc = "error"
       /\ batch'.error = "validation"
       /\ batch'.docs = <<>>
       /\ status' = status
       /\ nextId' = nextId]_vars

\* An archive whose entries were all filtered out was rejected while the
\* store held a document, which is still the only one.
C9_Witness ==
  /\ batch.pc = "error"
  /\ batch.error = "validation"
  /\ batch.archive.entries # <<>>
  /\ status[1] # NoDoc
  /\ \A d \in DocIds \ {1} : status[d] = NoDoc

\* C10 (as claimed): the total count of the batch summary is the number of
\* candidate entries, that is the accepted plus the filtered-out ones.
C10_TotalIsCandidateCount ==
  batch.pc = "returned" =>
    batch.resp.total_documents = Len(batch.archive.entries)

\* C10 (amended): the batch summary carries one count, the number of
\* documents stored, which is the number of PDF entries; filtered-out
\* entries create no document and are neither counted nor listed; the
\* summary lists one document per PDF entry, in archive order, each with
\* status uploaded (received).
C10_SummaryListsAccepted ==
  batch.pc = "returned" =>
    LET docs == batch.resp.documents
        pdfs == PdfEntries(batch.archive.entries)
    IN /\ batch.resp.total_documents = Len(docs)
       /\ Len(docs) = Cardinality(pdfs)
       /\ {origin[docs[k].upload_id] : k \in DOMAIN docs} = pdfs
       /\ {d \in DocIds : origin[d] # 0} = {docs[k].upload_id : k \in DOMAIN docs}
       /\ \A j, k \in DOMAIN docs :
            j < k => origin[docs[j].upload_id] < origin[docs[k].upload_id]
       /\ \A k \in DOMAIN docs : docs[k].status = "received"

\* The summary of an archive with a filtered-out entry between two PDFs.
C10_Witness ==
  /\ batch.pc = "returned"
  /\ Len(batch.archive.entries) = 3
  /\ batch.archive.entries[1] = "pdf"
  /\ batch.archive.entries[2] # "pdf"
  /\ batch.archive.entries[3] = "pdf"
  /\ batch.resp.total_documents = 2

SyncFailedStates == {"extracting_failed", "structuring_failed"}

InvalidFile(f) == f.size = 0 \/ f.size > MaxFileSizeMB \/ f.type # "pdf"

\* C12: an upload whose file is empty, over the size limit or of a
\* disallowed type is refused with a validation error; it stores no
\* document and starts no stage: the store, the parsing triggers and the
\* prediction tasks are the same before and after the call.
C12_InvalidUploadRejected ==
  [][\A f \in Files :
       InvalidFile(f) /\ UploadFile(nextId, f) =>
         /\ response'.result = <<"validation_error">>
         /\ status' = status
         /\ nextId' = nextId
         /\ triggered' = triggered
         /\ tasks' = tasks
         /\ prediction' = prediction]_vars

\* An upload has just been refused while the store holds one document,
\* which is still the only one.
C12_Witness ==
  /\ response.op = "upload"
  /\ response.result = <<"validation_error">>
  /\ status[1] # NoDoc
  /\ \A d \in DocIds \ {1} : status[d] = NoDoc

\* The next status of a document whose retry of the stage was accepted.
InProgressOf(stage) ==
  CASE stage = "extraction" -> "extracting"
    [] stage = "structuring" -> "structuring"
    [] stage = "prediction" -> "prediction_pending"

RetryIsRejected == response'.op = "retry" /\ response'.result = <<"rejected">>

ReadOps == {"getDocument", "getRiskPrediction", "listDocuments"}

\* C20: the reads change nothing in the store: no document, prediction
\* record, generation or task; they are answered while a prediction task
\* of the queried document is in flight, with what is stored at that
\* moment (a pending prediction is reported as pending, a missing one as
\* not found).
C20_ReadsArePure ==
  /\ [][response'.op \in ReadOps /\ response' # response =>
          UNCHANGED storeVars]_vars
  /\ [](response.op = "getRiskPrediction" =>
          LET d == response.arg[1]
          IN /\ status[d] = "prediction_pending" <=> response.result = <<"pending">>
             /\ status[d] = "prediction_completed" <=> response.result = <<"completed">>
             /\ status[d] = "prediction_failed" <=> response.result = <<"failed">>
             /\ Rank(status[d]) <= Rank("structured") <=>
                  response.result = <<"not_found">>)
  /\ [](response.op = "getDocument" =>
          LET d == response.arg[1]
          IN /\ status[d] = NoDoc <=> response.result = <<"error">>
             /\ status[d] \in SyncFailedStates <=> response.result[1] = "failed"
             /\ Rank(status[d]) >= Rank("structured") <=>
                  response.result[1] = "structured")
  /\ [](response.op = "listDocuments" =>
          Len(response.result) <= Min(response.arg[2], nextId - 1))

\* The prediction of a document was read while its task is in flight, and
\* the answer is pending.
C20_Witness ==
  /\ response.op = "getRiskPrediction"
  /\ InFlight(response.arg[1])
  /\ response.result = <<"pending">>

\* The status of the prediction record that goes with a document status.
RecordStatusOf(s) ==
  CASE s = "prediction_pending" -> "pending"
    [] s = "prediction_completed" -> "completed"
    [] s = "prediction_failed" -> "failed"
    [] OTHER -> "none"

TokensOf(d) ==
  {t.gen : t \in TasksOf(d)} \cup {writeLog[d][i].gen : i \in DOMAIN writeLog[d]}
    \cup {prediction[d].gen}

Stuck(d) == status[d] = "prediction_pending" /\ TasksOf(d) = {}

TerminalPrediction == {"prediction_completed", "prediction_failed"}

C22_ReviewWithoutPredictionConflicts ==
  [][\A d \in DocIds, rs \in ReviewStatuses, notes \in Notes :
       (/\ updateReviewStatus(d, rs, notes)
        /\ status[d] # NoDoc
        /\ prediction[d].status # "completed")
         => /\ response'.result = <<"error", "conflict">>
            /\ review' = review]_vars

\* A review-update was refused while the prediction was pending.
C22_Witness ==
  /\ response.op = "updateReviewStatus"
  /\ response.result = <<"error", "conflict">>
  /\ prediction[response.arg[1]].status = "pending"

C24_PollLifecycle ==
  /\ [](\A d \in DocIds :
          LET o == observed[d]
          IN /\ (o.prediction \in {"pending", "not_found"} /\ o.terminal > 0)
                  => o.gen > o.terminal
             /\ o.terminal > 0 => o.prediction # "not_found"
             /\ o.prediction = "completed" => Rank(status[d]) >= Rank("structured"))
  /\ [][\A d \in DocIds :
          observed[d].prediction \in {"pending", "completed", "failed"}
            => observed'[d].prediction # "not_found"]_vars

\* A poll returned pending after an earlier poll had returned completed or
\* failed.
C24_Witness ==
  \E d \in DocIds :
    /\ observed[d].prediction = "pending"
    /\ observed[d].terminal > 0

\* C25: a report detail page that was loaded without a prediction and
\* stays open gets the prediction by itself once the service has a record
\* for the document.
C25_PredictionArrivesOnOpenPage ==
  (/\ reportPage.pc = "ready"
   /\ reportPage.report.prediction = NoPredictionResult
   /\ prediction[reportPage.id].status # "none")
    ~> (reportPage.report.prediction # NoPredictionResult)

\* C26: handleSaveChanges sends the PATCH of updateReviewStatus only for a
\* report that has a prediction.
C26_NoPatchWithoutPrediction ==
  reportPage.pc = "saving" => reportPage.report.prediction # NoPredictionResult

\* The retries getRiskPrediction is documented to make after a failed request.
MaxRetries == 2

\* C27: a getRiskPrediction call gives up on a failing request only after
\* its retries (one request and MaxRetries more), and does not throw on a
\* 404, which means that the prediction is not ready yet.
C27_RetriesAndGraceful404 ==
  call.pc = "done" =>
    /\ call.result = "error: failed to fetch" => call.attempts = MaxRetries + 1
    /\ call.result # "error: prediction not found"

\* C28: once the demo pipeline page is not loading, the pipeline data it
\* shows are those of the selected document.
C28_DataOfTheSelection ==
  (~demoPage.isLoading /\ demoPage.pipelineData # NoPipelineData)
    => demoPage.pipelineData.document.upload_id = demoPage.selectedDocId

\* C29: the demo pipeline page shows the prediction step as completed only
\* for a prediction record whose status is completed.
C29_CompletedOnlyWhenCompleted ==
  getStepStatus("prediction") = "completed"
    => demoPage.pipelineData.prediction.status = "completed"

\* C30: with documents that only advance through the pipeline, a document
\* the demo pipeline page lists stays listed when the list is loaded again:
\* mapDocumentStatus never moves an advancing document back to pending or
\* uploaded.
C30_ListedStaysListed ==
  [][demoPage.documents \subseteq demoPage'.documents]_vars

=============================================================================
